---- MODULE Spec2Model ----
(***************************************************************************)
(* Standings-and-gap pipeline of mind-the-gap (src/src/data/transforms.py, *)
(* driven by src/scripts/pipeline.py).                                     *)
(*                                                                         *)
(* A DataFrame is a sequence of records, one record per row, in row order  *)
(* (the index is dropped by every stage).  Seasons, dates and team names   *)
(* are naturals standing for their rank in the order pandas compares them  *)
(* by (season strings and team names lexicographically, dates by day).     *)
(***************************************************************************)
EXTENDS Integers, Sequences, FiniteSets, TLC

VARIABLES pc, matches_df, long_df, cumulative_df, standings_df, gaps_df,
          raw_matches, standings_snapshots, relegation_gaps, sqlite_sequence,
          previous

\* The tables of the SQLite database, and what an earlier run left in them.
db_vars == <<raw_matches, standings_snapshots, relegation_gaps, sqlite_sequence,
             previous>>

vars == <<pc, matches_df, long_df, cumulative_df, standings_df, gaps_df,
          raw_matches, standings_snapshots, relegation_gaps, sqlite_sequence,
          previous>>

----------------------------------------------------------------------------
(* Bounds of the inputs *)

MaxMatches == 2
LeagueSize == 19
NumFocus == 5

SmallTeams == {1, 2, 3}
Seasons == {1, 2}
Dates == {1, 2}
SmallScores == {<<0, 0>>, <<1, 0>>, <<0, 1>>}
LeagueScores == {<<0, 0>>, <<1, 0>>, <<0, 1>>, <<1, 1>>}

----------------------------------------------------------------------------
(* pandas helpers *)

MaxOf(S) == CHOOSE x \in S : \A y \in S : y <= x

RECURSIVE SumField(_, _, _)
SumField(df, idx, field) ==
    IF idx = {} THEN 0
    ELSE LET i == CHOOSE j \in idx : TRUE
         IN df[i][field] + SumField(df, idx \ {i}, field)

RECURSIVE Flatten(_)
Flatten(ss) == IF ss = <<>> THEN <<>> ELSE Head(ss) \o Flatten(Tail(ss))

\* The rows of a table given row by row, as a sequence value.
Rows(f) == <<>> \o f

LexLess(a, b) ==
    \E k \in 1..Len(a) : a[k] < b[k] /\ \A j \in 1..(k - 1) : a[j] = b[j]

\* DataFrame.sort_values(by), keys[i] the `by` columns of row i: the rows in
\* ascending order of their key, rows of equal key in their original order.
SortValues(df, keys) ==
    LET n == Len(df)
        rank == Rows([i \in 1..n |->
                   Cardinality({j \in 1..n :
                       \/ LexLess(keys[j], keys[i])
                       \/ (keys[j] = keys[i] /\ j < i)}) + 1])
    IN Rows([p \in 1..n |-> df[CHOOSE i \in 1..n : rank[i] = p]])

\* Series.unique(): the distinct values in order of first appearance.
Unique(s) ==
    LET idx == [i \in 1..Len(s) |-> i]
        first == SelectSeq(idx, LAMBDA i : \A j \in 1..(i - 1) : s[j] # s[i])
    IN [k \in 1..Len(first) |-> s[first[k]]]

----------------------------------------------------------------------------
(* matches_to_long_format *)

\* Mutant of HomePts: two points for a win.
HomePtsTwoForWin(ftr) == CASE ftr = "H" -> 2 [] ftr = "D" -> 1 [] ftr = "A" -> 0

HomePts(ftr) == CASE ftr = "H" -> 3 [] ftr = "D" -> 1 [] ftr = "A" -> 0

\* Mutant of AwayPts: the away side given the home side's points.
AwayPtsAsHome(ftr) == CASE ftr = "H" -> 3 [] ftr = "D" -> 1 [] ftr = "A" -> 0

AwayPts(ftr) == CASE ftr = "A" -> 3 [] ftr = "D" -> 1 [] ftr = "H" -> 0

HomeRow(m) ==
    [Season |-> m.Season, Date |-> m.Date, Team |-> m.HomeTeam,
     Opponent |-> m.AwayTeam, GF |-> m.FTHG, GA |-> m.FTAG,
     Pts |-> HomePts(m.FTR), Venue |-> "H"]

\* Mutant of AwayRow: the goals left as the home side sees them.
AwayRowGoalsUnmirrored(m) ==
    [Season |-> m.Season, Date |-> m.Date, Team |-> m.AwayTeam,
     Opponent |-> m.HomeTeam, GF |-> m.FTHG, GA |-> m.FTAG,
     Pts |-> AwayPts(m.FTR), Venue |-> "A"]

AwayRow(m) ==
    [Season |-> m.Season, Date |-> m.Date, Team |-> m.AwayTeam,
     Opponent |-> m.HomeTeam, GF |-> m.FTAG, GA |-> m.FTHG,
     Pts |-> AwayPts(m.FTR), Venue |-> "A"]

LongKey(r) == <<r.Season, r.Date, r.Team>>

matches_to_long_format(df) ==
    LET homes == [i \in 1..Len(df) |-> HomeRow(df[i])]
        aways == [i \in 1..Len(df) |-> AwayRow(df[i])]
        long_df0 == homes \o aways
    IN SortValues(long_df0, Rows([i \in 1..Len(long_df0) |-> LongKey(long_df0[i])]))

----------------------------------------------------------------------------
(* calculate_cumulative_stats *)

\* Mutant of CumKey: the dates of a team taken latest first.
CumKeyLatestFirst(r) == <<r.Season, r.Team, -r.Date>>

CumKey(r) == <<r.Season, r.Team, r.Date>>

\* Mutant of SameSeasonTeam: a team's rows of all seasons in one group.
SameTeamAnySeason(a, b) == a.Team = b.Team

SameSeasonTeam(a, b) == a.Season = b.Season /\ a.Team = b.Team

\* Mutant of CumRow: the totals of the match alone, nothing accumulated.
CumRowMatchOnly(df, i) ==
    LET upto == {j \in 1..i : SameSeasonTeam(df[j], df[i])}
        r == df[i]
    IN [Season |-> r.Season, Date |-> r.Date, Team |-> r.Team,
        Opponent |-> r.Opponent, GF |-> r.GF, GA |-> r.GA, Pts |-> r.Pts,
        Venue |-> r.Venue,
        CumPts |-> r.Pts,
        CumGF |-> r.GF, CumGA |-> r.GA, CumGD |-> r.GF - r.GA,
        Played |-> Cardinality(upto \ {i}) + 1]

CumRow(df, i) ==
    LET upto == {j \in 1..i : SameSeasonTeam(df[j], df[i])}
        r == df[i]
        cumgf == SumField(df, upto, "GF")
        cumga == SumField(df, upto, "GA")
    IN [Season |-> r.Season, Date |-> r.Date, Team |-> r.Team,
        Opponent |-> r.Opponent, GF |-> r.GF, GA |-> r.GA, Pts |-> r.Pts,
        Venue |-> r.Venue,
        CumPts |-> SumField(df, upto, "Pts"),
        CumGF |-> cumgf, CumGA |-> cumga, CumGD |-> cumgf - cumga,
        Played |-> Cardinality(upto \ {i}) + 1]

calculate_cumulative_stats(df) ==
    LET sorted == SortValues(df, Rows([i \in 1..Len(df) |-> CumKey(df[i])]))
    IN [i \in 1..Len(sorted) |-> CumRow(sorted, i)]

----------------------------------------------------------------------------
(* create_standings_snapshots *)

\* .agg({... : 'max'}) of one (Season, Date, Team) group: every column is the
\* maximum of that column over the rows of the group, each on its own.
AggMax(df, key) ==
    LET grp == {i \in 1..Len(df) : LongKey(df[i]) = key}
    IN [Season |-> key[1], Date |-> key[2], Team |-> key[3],
        CumPts |-> MaxOf({df[i].CumPts : i \in grp}),
        CumGF |-> MaxOf({df[i].CumGF : i \in grp}),
        CumGA |-> MaxOf({df[i].CumGA : i \in grp}),
        CumGD |-> MaxOf({df[i].CumGD : i \in grp}),
        Played |-> MaxOf({df[i].Played : i \in grp})]

\* df.groupby(['Season', 'Date', 'Team']).agg(...).reset_index(): one row per
\* group, the groups in ascending order of their key.
TeamDates(df) ==
    LET keys == Unique([i \in 1..Len(df) |-> LongKey(df[i])])
        rows == [k \in 1..Len(keys) |-> AggMax(df, keys[k])]
    IN SortValues(rows, Rows([k \in 1..Len(rows) |-> LongKey(rows[k])]))

DateKey(r) == <<r.Date>>

\* Mutant of ForwardFill: the comparison of the dates turned round.
ForwardFillLater(season_data, team, date) ==
    LET later == SelectSeq(season_data, LAMBDA r : r.Team = team /\ r.Date > date)
        previous_data ==
            SortValues(later, Rows([i \in 1..Len(later) |-> DateKey(later[i])]))
    IN IF previous_data = <<>> THEN <<>>
       ELSE <<[previous_data[Len(previous_data)] EXCEPT !.Date = date]>>

\* The rows of previous_data for one team that did not play on `date`: its
\* most recent earlier row, moved to `date`; nothing if it has none.
ForwardFill(season_data, team, date) ==
    LET earlier == SelectSeq(season_data, LAMBDA r : r.Team = team /\ r.Date < date)
        previous_data ==
            SortValues(earlier, Rows([i \in 1..Len(earlier) |-> DateKey(earlier[i])]))
    IN IF previous_data = <<>> THEN <<>>
       ELSE <<[previous_data[Len(previous_data)] EXCEPT !.Date = date]>>

\* Mutant of DateData: only the teams that played on the date, nothing
\* carried forward.
DateDataPlayedOnly(season_data, all_teams, date) ==
    SelectSeq(season_data, LAMBDA r : r.Date = date)

DateData(season_data, all_teams, date) ==
    LET date_data == SelectSeq(season_data, LAMBDA r : r.Date = date)
        teams_on_date == {date_data[i].Team : i \in 1..Len(date_data)}
        filled == [k \in 1..Len(all_teams) |->
                     IF all_teams[k] \in teams_on_date THEN <<>>
                     ELSE ForwardFill(season_data, all_teams[k], date)]
    IN date_data \o Flatten(filled)

SeasonStandings(team_dates, season) ==
    LET season_data == SelectSeq(team_dates, LAMBDA r : r.Season = season)
        all_teams == Unique([i \in 1..Len(season_data) |-> season_data[i].Team])
        dates == Unique([i \in 1..Len(season_data) |-> season_data[i].Date])
        all_dates == SortValues(dates, Rows([k \in 1..Len(dates) |-> <<dates[k]>>]))
    IN Flatten([k \in 1..Len(all_dates) |->
                   DateData(season_data, all_teams, all_dates[k])])

AllStandings(team_dates) ==
    LET seasons == Unique([i \in 1..Len(team_dates) |-> team_dates[i].Season])
    IN Flatten([k \in 1..Len(seasons) |-> SeasonStandings(team_dates, seasons[k])])

\* Mutants of RankKey: goals-for compared before the goal difference; the
\* points left ascending.
RankKeyGoalsFirst(r) == <<r.Season, r.Date, -r.CumPts, -r.CumGF, -r.CumGD, r.Team>>

RankKeyPointsAscending(r) == <<r.Season, r.Date, r.CumPts, -r.CumGD, -r.CumGF, r.Team>>

\* sort_values(['Season', 'Date', 'CumPts', 'CumGD', 'CumGF', 'Team'],
\*             ascending=[True, True, False, False, False, True])
RankKey(r) == <<r.Season, r.Date, -r.CumPts, -r.CumGD, -r.CumGF, r.Team>>

SameSeasonDate(a, b) == a.Season = b.Season /\ a.Date = b.Date

\* Mutant of StandingsRow: teams level on points share a position.
StandingsRowSharedRank(sorted, i) ==
    LET r == sorted[i]
    IN [Season |-> r.Season, Date |-> r.Date, team |-> r.Team,
        points |-> r.CumPts, goals_for |-> r.CumGF,
        goals_against |-> r.CumGA, goal_difference |-> r.CumGD,
        played |-> r.Played,
        position |-> Cardinality({j \in 1..Len(sorted) :
                        /\ SameSeasonDate(sorted[j], r)
                        /\ sorted[j].CumPts > r.CumPts}) + 1]

StandingsRow(sorted, i) ==
    LET r == sorted[i]
    IN [Season |-> r.Season, Date |-> r.Date, team |-> r.Team,
        points |-> r.CumPts, goals_for |-> r.CumGF,
        goals_against |-> r.CumGA, goal_difference |-> r.CumGD,
        played |-> r.Played,
        position |-> Cardinality({j \in 1..(i - 1) :
                        SameSeasonDate(sorted[j], r)}) + 1]

\* Defined for a non-empty input; on an empty one pd.concat([]) raises.
create_standings_snapshots(df) ==
    LET standings == AllStandings(TeamDates(df))
        sorted == SortValues(standings,
                      Rows([i \in 1..Len(standings) |-> RankKey(standings[i])]))
    IN [i \in 1..Len(sorted) |-> StandingsRow(sorted, i)]

----------------------------------------------------------------------------
(* calculate_relegation_gaps *)

SafetyRank == 17

PointsPerGame == 3

SeasonDateKey(r) == <<r.Season, r.Date>>

PositionKey(r) == <<r.position>>

\* Mutant of GapToSafety: the difference taken the other way round.
GapToSafetyReversed(safety_points, points) == points - safety_points

GapToSafety(safety_points, points) == safety_points - points

\* Mutant of GapRow: the games in hand counted from the fewest games played.
GapRowFromFewestPlayed(r, safety_points, max_played) ==
    LET gap == GapToSafety(safety_points, r.points)
        in_hand == r.played - max_played
    IN [Season |-> r.Season, Date |-> r.Date, team |-> r.team,
        points |-> r.points, goals_for |-> r.goals_for,
        goals_against |-> r.goals_against,
        goal_difference |-> r.goal_difference, played |-> r.played,
        position |-> r.position,
        gap_to_17th |-> gap, games_in_hand |-> in_hand,
        games_in_hand_adjusted |-> gap - in_hand * PointsPerGame]

GapRow(r, safety_points, max_played) ==
    LET gap == GapToSafety(safety_points, r.points)
        in_hand == max_played - r.played
    IN [Season |-> r.Season, Date |-> r.Date, team |-> r.team,
        points |-> r.points, goals_for |-> r.goals_for,
        goals_against |-> r.goals_against,
        goal_difference |-> r.goal_difference, played |-> r.played,
        position |-> r.position,
        gap_to_17th |-> gap, games_in_hand |-> in_hand,
        games_in_hand_adjusted |-> gap - in_hand * PointsPerGame]

\* Mutant of SafetyRows: the row after the seventeenth (an index off by one).
SafetyRowsNext(group) == SelectSeq(group, LAMBDA r : r.position = SafetyRank + 1)

SafetyRows(group) == SelectSeq(group, LAMBDA r : r.position = SafetyRank)

\* Mutant of GroupGaps: a group without a row at SafetyRank measured against
\* its last row.
GroupGapsFromLastRow(standings, key) ==
    LET rows == SelectSeq(standings, LAMBDA r : SeasonDateKey(r) = key)
        group == SortValues(rows, Rows([i \in 1..Len(rows) |-> PositionKey(rows[i])]))
        safety_rows == SafetyRows(group)
        safety_points == IF safety_rows = <<>> THEN group[Len(group)].points
                         ELSE safety_rows[1].points
        max_played == MaxOf({group[i].played : i \in 1..Len(group)})
    IN [i \in 1..Len(group) |-> GapRow(group[i], safety_points, max_played)]

\* One pass of the loop over standings.groupby(['Season', 'Date']): the rows
\* appended to `gaps` for the group, none when it has no row at SafetyRank.
GroupGaps(standings, key) ==
    LET rows == SelectSeq(standings, LAMBDA r : SeasonDateKey(r) = key)
        group == SortValues(rows, Rows([i \in 1..Len(rows) |-> PositionKey(rows[i])]))
        safety_rows == SafetyRows(group)
    IN IF safety_rows = <<>> THEN <<>>
       ELSE LET safety_points == safety_rows[1].points
                max_played == MaxOf({group[i].played : i \in 1..Len(group)})
            IN [i \in 1..Len(group) |->
                   GapRow(group[i], safety_points, max_played)]

calculate_relegation_gaps(standings) ==
    LET groups == Unique([i \in 1..Len(standings) |-> SeasonDateKey(standings[i])])
        keys == SortValues(groups, groups)
    IN Flatten([k \in 1..Len(keys) |-> GroupGaps(standings, keys[k])])

----------------------------------------------------------------------------
(* mark_survivors *)

SeasonTeams(final_standings) ==
    {<<final_standings[i].Season, final_standings[i].team>> :
        i \in 1..Len(final_standings)}

\* Mutant of SeasonFinalPosition: .first() in place of .last().
SeasonFinalPositionFirst(final_standings, season, team) ==
    LET sorted == SortValues(final_standings,
                      Rows([i \in 1..Len(final_standings) |->
                               SeasonDateKey(final_standings[i])]))
        rows == SelectSeq(sorted, LAMBDA r : r.Season = season /\ r.team = team)
    IN rows[1].position

\* final_standings.sort_values(['Season', 'Date']).groupby(['Season', 'team'])
\* .last(): the position in the last row of the (season, team) group.
SeasonFinalPosition(final_standings, season, team) ==
    LET sorted == SortValues(final_standings,
                      Rows([i \in 1..Len(final_standings) |->
                               SeasonDateKey(final_standings[i])]))
        rows == SelectSeq(sorted, LAMBDA r : r.Season = season /\ r.team = team)
    IN rows[Len(rows)].position

\* Mutant of Survived: the labeller's cutoff one rank below the Gap Engine's.
SurvivedRankBelow(position) == position <= SafetyRank + 1

\* Mutant of Survived: the cutoff exclusive.
SurvivedStrict(position) == position < SafetyRank

Survived(position) == position <= SafetyRank

\* Mutant of SurvivalStatus: a team level with the safety line counts as in
\* danger.
SurvivalStatusInclusive(row, final_standings) ==
    IF row.gap_to_17th >= 0
    THEN IF <<row.Season, row.team>> \in SeasonTeams(final_standings)
         THEN IF Survived(SeasonFinalPosition(final_standings, row.Season, row.team))
              THEN "True" ELSE "False"
         ELSE "False"
    ELSE "None"

\* get_survival_status: "True" / "False" for a row in danger, "None" otherwise.
SurvivalStatus(row, final_standings) ==
    IF row.gap_to_17th > 0
    THEN IF <<row.Season, row.team>> \in SeasonTeams(final_standings)
         THEN IF Survived(SeasonFinalPosition(final_standings, row.Season, row.team))
              THEN "True" ELSE "False"
         ELSE "False"
    ELSE "None"

MarkedRow(r, final_standings) ==
    [Season |-> r.Season, Date |-> r.Date, team |-> r.team,
     points |-> r.points, goals_for |-> r.goals_for,
     goals_against |-> r.goals_against,
     goal_difference |-> r.goal_difference, played |-> r.played,
     position |-> r.position, gap_to_17th |-> r.gap_to_17th,
     games_in_hand |-> r.games_in_hand,
     games_in_hand_adjusted |-> r.games_in_hand_adjusted,
     eventually_survived |-> SurvivalStatus(r, final_standings)]

mark_survivors(gaps, final_standings) ==
    [i \in 1..Len(gaps) |-> MarkedRow(gaps[i], final_standings)]

----------------------------------------------------------------------------
(* insert_matches_to_db, insert_standings_to_db, insert_gaps_to_db *)

\* The rows as the tables hold them.  The id column is the table's INTEGER
\* PRIMARY KEY AUTOINCREMENT; a date is written as 'YYYY-MM-DD', which keeps
\* dates distinct and in order, so it stays the day number here.
RawMatchRow(m, id) ==
    [match_id |-> id, season |-> m.Season, date |-> m.Date,
     home_team |-> m.HomeTeam, away_team |-> m.AwayTeam,
     home_goals |-> m.FTHG, away_goals |-> m.FTAG, result |-> m.FTR]

SnapshotRow(r, id) ==
    [snapshot_id |-> id, season |-> r.Season, date |-> r.Date, team |-> r.team,
     position |-> r.position, played |-> r.played, points |-> r.points,
     goals_for |-> r.goals_for, goals_against |-> r.goals_against,
     goal_difference |-> r.goal_difference]

\* True, False and None as SQLite stores them in a BOOLEAN column.
SqlBoolean(v) == CASE v = "True" -> "1" [] v = "False" -> "0" [] v = "None" -> "NULL"

GapDbRow(g, id) ==
    [gap_id |-> id, season |-> g.Season, date |-> g.Date, team |-> g.team,
     position |-> g.position, points |-> g.points,
     gap_to_17th |-> g.gap_to_17th,
     games_in_hand_adjusted |-> g.games_in_hand_adjusted,
     eventually_survived |-> SqlBoolean(g.eventually_survived)]

MatchKey(r) == <<r.season, r.date, r.home_team, r.away_team>>

TeamDateKey(r) == <<r.season, r.date, r.team>>

\* A UNIQUE constraint broken by the rows to insert, against the stored rows
\* or among themselves.
UniqueViolated(stored_keys, keys) ==
    \E i \in 1..Len(keys) :
        \/ keys[i] \in stored_keys
        \/ \E j \in 1..(i - 1) : keys[j] = keys[i]

ToSet(rows) == {rows[i] : i \in 1..Len(rows)}

----------------------------------------------------------------------------
(* Inputs: the match table handed to the pipeline after loading *)

Result(hg, ag) == IF hg > ag THEN "H" ELSE IF hg < ag THEN "A" ELSE "D"

Match(s, d, h, a, hg, ag) ==
    [Season |-> s, Date |-> d, HomeTeam |-> h, AwayTeam |-> a,
     FTHG |-> hg, FTAG |-> ag, FTR |-> Result(hg, ag)]

\* Any short list of matches among a few teams, in any order: several
\* matches on a date, a team playing twice on a date, the same fixture
\* twice, two seasons.  The home team is the one earlier in the alphabet.
SmallMatches ==
    {m \in {Match(s, d, h, a, sc[1], sc[2]) :
                s \in Seasons, d \in Dates, h \in SmallTeams, a \in SmallTeams,
                sc \in SmallScores} :
        m.HomeTeam < m.AwayTeam}

SmallInputs == UNION {[1..n -> SmallMatches] : n \in 1..MaxMatches}

\* The first two rounds of a full league season: on date 1 team 2i-1 hosts
\* team 2i, on date 2 team 2i hosts team 2i+1.  The fixtures among the last
\* NumFocus teams take any score, all the others end 0-0.
LeagueFixtures ==
    [i \in 1..(LeagueSize \div 2) |->
        [Date |-> 1, HomeTeam |-> 2 * i - 1, AwayTeam |-> 2 * i]]
    \o [i \in 1..((LeagueSize - 1) \div 2) |->
        [Date |-> 2, HomeTeam |-> 2 * i, AwayTeam |-> 2 * i + 1]]

FreeFixtures ==
    {k \in 1..Len(LeagueFixtures) :
        /\ LeagueFixtures[k].HomeTeam > LeagueSize - NumFocus
        /\ LeagueFixtures[k].AwayTeam > LeagueSize - NumFocus}

LeagueInputs ==
    {[k \in 1..Len(LeagueFixtures) |->
        LET f == LeagueFixtures[k]
        IN IF k \in FreeFixtures
           THEN Match(1, f.Date, f.HomeTeam, f.AwayTeam, sc[k][1], sc[k][2])
           ELSE Match(1, f.Date, f.HomeTeam, f.AwayTeam, 0, 0)] :
     sc \in [FreeFixtures -> LeagueScores]}

\* Records the loader lets through although the score is impossible or the
\* result code contradicts it: load_season_csv checks only that FTR is one
\* of H, D, A.
BadScores == {<<0, 1, "H">>, <<1, 0, "D">>, <<-1, 0, "A">>, <<0, -1, "H">>}

MalformedMatches ==
    {[Match(1, d, 1, 2, b[1], b[2]) EXCEPT !.FTR = b[3]] :
        d \in Dates, b \in BadScores}

\* One such record, alone or followed by a sound match.
MalformedInputs ==
    {<<bad>> \o rest :
        bad \in MalformedMatches,
        rest \in {<<>>} \cup {<<m>> : m \in SmallMatches}}

\* A league season with all its free fixtures goalless, followed by one or
\* two matches on the first date of the next season: a team playing twice
\* on a date, the same fixture twice.
LeagueGoalless ==
    CHOOSE lg \in LeagueInputs :
        \A k \in 1..Len(lg) : lg[k].FTHG = 0 /\ lg[k].FTAG = 0

NextSeasonMatches == {m \in SmallMatches : m.Season = 2 /\ m.Date = 1}

MixedInputs ==
    {LeagueGoalless \o rest :
        rest \in {<<m>> : m \in NextSeasonMatches}
                  \cup {<<m, n>> : m \in NextSeasonMatches, n \in NextSeasonMatches}}

\* The four-team mini-season of the scenario: on day 1 A beats B 2-1 and C
\* draws D 1-1, on day 2 A draws C 0-0 and B beats D 3-0 (A, B, C, D = 1..4).
MiniSeason ==
    <<Match(1, 1, 1, 2, 2, 1), Match(1, 1, 3, 4, 1, 1),
      Match(1, 2, 1, 3, 0, 0), Match(1, 2, 2, 4, 3, 0)>>

Inputs ==
    SmallInputs \cup LeagueInputs \cup MalformedInputs \cup MixedInputs
        \cup {MiniSeason}

\* No match table: load_all_seasons raised FileNotFoundError (directory or
\* CSV files missing) or ValueError (no valid season), or the table it
\* returned is empty.
NoData == <<>>

\* What the loader finds on a later run over the files that gave df: the
\* same matches, nothing at all, or the same matches with further rows
\* appended.
LaterInputs(df) ==
    {df, NoData}
        \cup {x \in MixedInputs : Len(x) > Len(df) /\ SubSeq(x, 1, Len(df)) = df}

----------------------------------------------------------------------------
(* run_full_pipeline against a database that initialize_database has just
   created *)

frames == <<matches_df, long_df, cumulative_df, standings_df, gaps_df>>

Init ==
    /\ pc = "start"
    /\ matches_df \in Inputs \cup {NoData}
    /\ long_df = <<>>
    /\ cumulative_df = <<>>
    /\ standings_df = <<>>
    /\ gaps_df = <<>>
    /\ raw_matches = {}
    /\ standings_snapshots = {}
    /\ relegation_gaps = {}
    /\ sqlite_sequence = [raw_matches |-> 0, standings_snapshots |-> 0,
                          relegation_gaps |-> 0]
    /\ previous = [ran |-> FALSE, matches_df |-> NoData, raw_matches |-> {},
                   standings_snapshots |-> {}, relegation_gaps |-> {}]

\* Mutant of LoadSeasons: the tables are emptied before the data is looked at.
LoadSeasonsAfterDelete ==
    /\ pc = "start"
    /\ pc' = IF matches_df = NoData THEN "load_failed" ELSE "loaded"
    /\ raw_matches' = {}
    /\ standings_snapshots' = {}
    /\ relegation_gaps' = {}
    /\ UNCHANGED <<frames, sqlite_sequence, previous>>

\* Step 2 of run_full_pipeline: with no data the error is logged, the
\* database closed and the run returns; otherwise the run goes on with the
\* match table.
LoadSeasons ==
    /\ pc = "start"
    /\ pc' = IF matches_df = NoData THEN "load_failed" ELSE "loaded"
    /\ UNCHANGED frames
    /\ UNCHANGED db_vars

LongFormat ==
    /\ pc = "loaded"
    /\ long_df' = matches_to_long_format(matches_df)
    /\ pc' = "long"
    /\ UNCHANGED <<matches_df, cumulative_df, standings_df, gaps_df>>
    /\ UNCHANGED db_vars

\* Mutant of CumulativeStats: df.copy() left out and the table sorted in
\* place, so that the new columns land in the caller's long table.
CumulativeStatsInPlace ==
    /\ pc = "long"
    /\ cumulative_df' = calculate_cumulative_stats(long_df)
    /\ long_df' = cumulative_df'
    /\ pc' = "cumulative"
    /\ UNCHANGED <<matches_df, standings_df, gaps_df>>
    /\ UNCHANGED db_vars

\* calculate_cumulative_stats works on df.copy(): the long table is left as
\* it was.
CumulativeStats ==
    /\ pc = "long"
    /\ cumulative_df' = calculate_cumulative_stats(long_df)
    /\ pc' = "cumulative"
    /\ UNCHANGED <<matches_df, long_df, standings_df, gaps_df>>
    /\ UNCHANGED db_vars

\* pd.concat(all_standings) raises on an empty list, that is when the input
\* has no row.
StandingsSnapshots ==
    /\ pc = "cumulative"
    /\ IF cumulative_df = <<>>
       THEN pc' = "error" /\ UNCHANGED standings_df
       ELSE /\ standings_df' = create_standings_snapshots(cumulative_df)
            /\ pc' = "standings"
    /\ UNCHANGED <<matches_df, long_df, cumulative_df, gaps_df>>
    /\ UNCHANGED db_vars

RelegationGaps ==
    /\ pc = "standings"
    /\ gaps_df' = calculate_relegation_gaps(standings_df)
    /\ pc' = "gaps"
    /\ UNCHANGED <<matches_df, long_df, cumulative_df, standings_df>>
    /\ UNCHANGED db_vars

\* With no gap row calculate_relegation_gaps returns pd.DataFrame(), a frame
\* without columns: gaps.apply(..., axis=1) then returns a frame and the
\* assignment of the 'eventually_survived' column raises.
MarkSurvivors ==
    /\ pc = "gaps"
    /\ IF gaps_df = <<>>
       THEN pc' = "error" /\ UNCHANGED gaps_df
       ELSE /\ gaps_df' = mark_survivors(gaps_df, standings_df)
            /\ pc' = "marked"
    /\ UNCHANGED <<matches_df, long_df, cumulative_df, standings_df>>
    /\ UNCHANGED db_vars

\* Mutant of ClearTables: only raw_matches emptied.
ClearTablesMatchesOnly ==
    /\ pc = "marked"
    /\ raw_matches' = {}
    /\ pc' = "cleared"
    /\ UNCHANGED <<frames, standings_snapshots, relegation_gaps,
                   sqlite_sequence, previous>>

\* DELETE FROM raw_matches, standings_snapshots, relegation_gaps; commit.
\* The AUTOINCREMENT counters of sqlite_sequence stay as they are.
ClearTables ==
    /\ pc = "marked"
    /\ raw_matches' = {}
    /\ standings_snapshots' = {}
    /\ relegation_gaps' = {}
    /\ pc' = "cleared"
    /\ UNCHANGED <<frames, sqlite_sequence, previous>>

\* insert_matches_to_db: to_sql(if_exists='append') inserts all rows in one
\* transaction; a breach of UNIQUE(season, date, home_team, away_team) raises
\* sqlite3.IntegrityError, the transaction is rolled back and the run ends.
InsertMatches ==
    /\ pc = "cleared"
    /\ LET df_insert == Rows([i \in 1..Len(matches_df) |->
                 RawMatchRow(matches_df[i], sqlite_sequence.raw_matches + i)])
           keys == Rows([i \in 1..Len(df_insert) |-> MatchKey(df_insert[i])])
       IN IF UniqueViolated({MatchKey(r) : r \in raw_matches}, keys)
          THEN /\ pc' = "integrity_error"
               /\ UNCHANGED <<raw_matches, sqlite_sequence>>
          ELSE /\ raw_matches' = raw_matches \cup ToSet(df_insert)
               /\ sqlite_sequence' =
                      [sqlite_sequence EXCEPT !.raw_matches = @ + Len(df_insert)]
               /\ pc' = "matches_inserted"
    /\ UNCHANGED <<frames, standings_snapshots, relegation_gaps, previous>>

\* insert_standings_to_db, under UNIQUE(season, date, team).
InsertStandings ==
    /\ pc = "matches_inserted"
    /\ LET df_insert == Rows([i \in 1..Len(standings_df) |->
                 SnapshotRow(standings_df[i], sqlite_sequence.standings_snapshots + i)])
           keys == Rows([i \in 1..Len(df_insert) |-> TeamDateKey(df_insert[i])])
       IN IF UniqueViolated({TeamDateKey(r) : r \in standings_snapshots}, keys)
          THEN /\ pc' = "integrity_error"
               /\ UNCHANGED <<standings_snapshots, sqlite_sequence>>
          ELSE /\ standings_snapshots' = standings_snapshots \cup ToSet(df_insert)
               /\ sqlite_sequence' =
                      [sqlite_sequence EXCEPT !.standings_snapshots = @ + Len(df_insert)]
               /\ pc' = "standings_inserted"
    /\ UNCHANGED <<frames, raw_matches, relegation_gaps, previous>>

\* insert_gaps_to_db, under UNIQUE(season, date, team).
InsertGaps ==
    /\ pc = "standings_inserted"
    /\ LET df_insert == Rows([i \in 1..Len(gaps_df) |->
                 GapDbRow(gaps_df[i], sqlite_sequence.relegation_gaps + i)])
           keys == Rows([i \in 1..Len(df_insert) |-> TeamDateKey(df_insert[i])])
       IN IF UniqueViolated({TeamDateKey(r) : r \in relegation_gaps}, keys)
          THEN /\ pc' = "integrity_error"
               /\ UNCHANGED <<relegation_gaps, sqlite_sequence>>
          ELSE /\ relegation_gaps' = relegation_gaps \cup ToSet(df_insert)
               /\ sqlite_sequence' =
                      [sqlite_sequence EXCEPT !.relegation_gaps = @ + Len(df_insert)]
               /\ pc' = "done"
    /\ UNCHANGED <<frames, raw_matches, standings_snapshots, previous>>

\* run_full_pipeline called a second time, after a run that got as far as
\* the database step: the loader reads the files anew, every other frame
\* starts afresh, the database is as the first run left it.  (A run that
\* stopped earlier left the database untouched, so the run after it is a
\* first run again.)
Rerun ==
    /\ pc \in {"done", "integrity_error"}
    /\ ~previous.ran
    /\ previous' = [ran |-> TRUE, matches_df |-> matches_df,
                    raw_matches |-> raw_matches,
                    standings_snapshots |-> standings_snapshots,
                    relegation_gaps |-> relegation_gaps]
    /\ pc' = "start"
    /\ matches_df' \in LaterInputs(matches_df)
    /\ long_df' = <<>>
    /\ cumulative_df' = <<>>
    /\ standings_df' = <<>>
    /\ gaps_df' = <<>>
    /\ UNCHANGED <<raw_matches, standings_snapshots, relegation_gaps,
                   sqlite_sequence>>

Next ==
    \/ LoadSeasons
    \/ LongFormat
    \/ CumulativeStats
    \/ StandingsSnapshots
    \/ RelegationGaps
    \/ MarkSurvivors
    \/ ClearTables
    \/ InsertMatches
    \/ InsertStandings
    \/ InsertGaps
    \/ Rerun

Spec == Init /\ [][Next]_vars

\* The stages called one after the other on a match table built by hand, as
\* the tests of the transforms do: no loader, no database step.
DirectInit ==
    /\ pc = "loaded"
    /\ matches_df \in SmallInputs \cup {NoData}
    /\ long_df = <<>>
    /\ cumulative_df = <<>>
    /\ standings_df = <<>>
    /\ gaps_df = <<>>
    /\ raw_matches = {}
    /\ standings_snapshots = {}
    /\ relegation_gaps = {}
    /\ sqlite_sequence = [raw_matches |-> 0, standings_snapshots |-> 0,
                          relegation_gaps |-> 0]
    /\ previous = [ran |-> FALSE, matches_df |-> NoData, raw_matches |-> {},
                   standings_snapshots |-> {}, relegation_gaps |-> {}]

DirectNext ==
    \/ LongFormat
    \/ CumulativeStats
    \/ StandingsSnapshots
    \/ RelegationGaps
    \/ MarkSurvivors

DirectSpec == DirectInit /\ [][DirectNext]_vars

----------------------------------------------------------------------------
(* What the claims speak of *)

StandingsDone == pc \in {"standings", "gaps", "marked"}

GapsDone == pc \in {"gaps", "marked"}

AllTeams == SmallTeams \cup (1..LeagueSize)

Involves(m, t) == m.HomeTeam = t \/ m.AwayTeam = t

\* The matches of team t in season s dated on or before d.
MatchesUpTo(s, t, d) ==
    {i \in 1..Len(matches_df) :
        /\ matches_df[i].Season = s
        /\ matches_df[i].Date <= d
        /\ Involves(matches_df[i], t)}

\* Each match as team t sees it: win 3, draw 1, loss 0, own and conceded goals.
TeamView(t) ==
    Rows([i \in 1..Len(matches_df) |->
        LET m == matches_df[i]
            home == m.HomeTeam = t
        IN [Pts |-> IF m.FTR = "D" THEN 1
                    ELSE IF (m.FTR = "H") = home THEN 3 ELSE 0,
            GF |-> IF home THEN m.FTHG ELSE m.FTAG,
            GA |-> IF home THEN m.FTAG ELSE m.FTHG]])

MatchDates(s) ==
    {matches_df[i].Date : i \in {j \in 1..Len(matches_df) : matches_df[j].Season = s}}

StandingsAt(s, d, t) ==
    {i \in 1..Len(standings_df) :
        /\ standings_df[i].Season = s
        /\ standings_df[i].Date = d
        /\ standings_df[i].team = t}

Group(df, s, d) == {i \in 1..Len(df) : df[i].Season = s /\ df[i].Date = d}

TotalsAgree(r, fields) ==
    LET upto == MatchesUpTo(r.Season, r.team, r.Date)
        view == TeamView(r.team)
        gf == SumField(view, upto, "GF")
        ga == SumField(view, upto, "GA")
        total == [points |-> SumField(view, upto, "Pts"),
                  goals_for |-> gf, goals_against |-> ga,
                  goal_difference |-> gf - ga,
                  played |-> Cardinality(upto)]
    IN \A f \in fields : r[f] = total[f]

\* C1: every StandingsRow (s, d, t) carries as points, goals_for,
\* goals_against, goal_difference and played the totals over all matches of
\* t in s dated on or before d, also when t plays twice on a date.
C1_TotalsUpToDate ==
    StandingsDone =>
        \A i \in 1..Len(standings_df) :
            TotalsAgree(standings_df[i],
                {"points", "goals_for", "goals_against", "goal_difference", "played"})

\* C2: on every match date d of a season s there is exactly one StandingsRow
\* for each team that has played in s by d and none for any other team; a
\* team with a row on some date has one on every later match date of s.
C2_OneRowPerTeamPlayed ==
    StandingsDone =>
        /\ \A s \in Seasons : \A d \in MatchDates(s) : \A t \in AllTeams :
              Cardinality(StandingsAt(s, d, t)) =
                  IF MatchesUpTo(s, t, d) # {} THEN 1 ELSE 0
        /\ \A i \in 1..Len(standings_df) :
              LET r == standings_df[i]
              IN \A d \in MatchDates(r.Season) :
                    d > r.Date => StandingsAt(r.Season, d, r.team) # {}

\* A team that did not play on a match date has a carried-forward row on it,
\* and a team whose first match is later has none.
C2_Witness ==
    /\ StandingsDone
    /\ \E s \in Seasons : \E d \in MatchDates(s) : \E t \in AllTeams :
          /\ StandingsAt(s, d, t) # {}
          /\ MatchesUpTo(s, t, d) = MatchesUpTo(s, t, d - 1)
    /\ \E s \in Seasons : \E d, e \in MatchDates(s) : \E u \in AllTeams :
          /\ MatchesUpTo(s, u, d) = {}
          /\ MatchesUpTo(s, u, e) # {}
          /\ StandingsAt(s, d, u) = {}

\* C3: in every (season, date) group of StandingsRows the positions are
\* exactly 1..N, N the number of rows of the group, none repeated.
C3_PositionsDense ==
    StandingsDone =>
        \A s \in Seasons : \A d \in Dates :
            LET grp == Group(standings_df, s, d)
            IN /\ {standings_df[i].position : i \in grp} = 1..Cardinality(grp)
               /\ \A i, j \in grp :
                     standings_df[i].position = standings_df[j].position => i = j

SameRecord(a, b) ==
    /\ a.points = b.points
    /\ a.goal_difference = b.goal_difference
    /\ a.goals_for = b.goals_for

\* Two teams level on points, goal difference and goals-for in one group.
C3_Witness ==
    /\ StandingsDone
    /\ \E i, j \in 1..Len(standings_df) :
          /\ i # j
          /\ SameSeasonDate(standings_df[i], standings_df[j])
          /\ SameRecord(standings_df[i], standings_df[j])

\* The ranking rule: more points, then better goal difference, then more
\* goals scored, then the name earlier in the alphabet.
Precedes(a, b) ==
    \/ a.points > b.points
    \/ a.points = b.points /\ a.goal_difference > b.goal_difference
    \/ /\ a.points = b.points /\ a.goal_difference = b.goal_difference
       /\ a.goals_for > b.goals_for
    \/ SameRecord(a, b) /\ a.team < b.team

\* C4: within a (season, date) group a.position < b.position exactly when a
\* precedes b by (points desc, goal difference desc, goals-for desc, team
\* name asc); so points never increase with the position.
C4_PositionIsRank ==
    StandingsDone =>
        \A i, j \in 1..Len(standings_df) :
            LET a == standings_df[i]
                b == standings_df[j]
            IN SameSeasonDate(a, b) =>
                  /\ (a.position < b.position) <=> Precedes(a, b)
                  /\ a.position < b.position => a.points >= b.points

\* Goal difference and goals-for pull in opposite directions for two teams
\* level on points, and two other teams are separated by the name alone.
C4_Witness ==
    /\ StandingsDone
    /\ \E i, j \in 1..Len(standings_df) :
          LET a == standings_df[i]
              b == standings_df[j]
          IN /\ SameSeasonDate(a, b)
             /\ a.points = b.points
             /\ a.goal_difference > b.goal_difference
             /\ a.goals_for < b.goals_for
    /\ \E i, j \in 1..Len(standings_df) :
          /\ i # j
          /\ SameSeasonDate(standings_df[i], standings_df[j])
          /\ SameRecord(standings_df[i], standings_df[j])

\* The StandingsRows at the safety rank in the group of (s, d).
SafetyLine(s, d) ==
    {i \in Group(standings_df, s, d) : standings_df[i].position = SafetyRank}

\* C5: gap_to_17th of every GapRecord is the points of the row at position 17
\* of its (season, date) group minus its own points; gap > 0 is fewer points
\* than the safety-line team, gap < 0 more, gap = 0 the same.
C5_GapIsSafetyMinusOwn ==
    GapsDone =>
        \A i \in 1..Len(gaps_df) :
            LET g == gaps_df[i]
            IN /\ SafetyLine(g.Season, g.Date) # {}
               /\ \A j \in SafetyLine(g.Season, g.Date) :
                     LET safety == standings_df[j].points
                     IN /\ g.gap_to_17th = safety - g.points
                        /\ (g.gap_to_17th > 0) <=> (g.points < safety)
                        /\ (g.gap_to_17th < 0) <=> (g.points > safety)
                        /\ (g.gap_to_17th = 0) <=> (g.points = safety)

\* GapRecords with a positive, a negative and a zero gap.
C5_Witness ==
    /\ GapsDone
    /\ \E i, j, k \in 1..Len(gaps_df) :
          /\ gaps_df[i].gap_to_17th > 0
          /\ gaps_df[j].gap_to_17th < 0
          /\ gaps_df[k].gap_to_17th = 0

\* C6: for every GapRecord, a positive gap implies position >= 18 and a
\* negative gap implies position < 17, ties at the safety line included.
C6_GapSignBoundsPosition ==
    GapsDone =>
        \A i \in 1..Len(gaps_df) :
            LET g == gaps_df[i]
            IN /\ g.gap_to_17th > 0 => g.position >= SafetyRank + 1
               /\ g.gap_to_17th < 0 => g.position < SafetyRank

\* A group where the teams at 16, 17 and 18 are level on points, and teams
\* above and below them are not.
C6_Witness ==
    /\ GapsDone
    /\ \E i \in 1..Len(gaps_df) :
          /\ gaps_df[i].position = SafetyRank + 1 /\ gaps_df[i].gap_to_17th = 0
          /\ \E j \in 1..Len(gaps_df) :
                /\ SameSeasonDate(gaps_df[i], gaps_df[j])
                /\ gaps_df[j].position = SafetyRank - 1 /\ gaps_df[j].gap_to_17th = 0
          /\ \E k \in 1..Len(gaps_df) :
                SameSeasonDate(gaps_df[i], gaps_df[k]) /\ gaps_df[k].gap_to_17th > 0
          /\ \E l \in 1..Len(gaps_df) :
                SameSeasonDate(gaps_df[i], gaps_df[l]) /\ gaps_df[l].gap_to_17th < 0

\* No other team of the group has the points of the team at the safety rank.
CleanSafetyLine(s, d) ==
    \A j \in SafetyLine(s, d) : \A i \in Group(standings_df, s, d) :
        standings_df[i].points = standings_df[j].points => i = j

\* C7: in a group with a clean safety line, gap > 0 exactly for the
\* positions after 17, gap < 0 exactly for those before, gap = 0 exactly at 17.
C7_CleanLineEquivalence ==
    GapsDone =>
        \A i \in 1..Len(gaps_df) :
            LET g == gaps_df[i]
            IN CleanSafetyLine(g.Season, g.Date) =>
                  /\ (g.gap_to_17th > 0) <=> (g.position > SafetyRank)
                  /\ (g.gap_to_17th < 0) <=> (g.position < SafetyRank)
                  /\ (g.gap_to_17th = 0) <=> (g.position = SafetyRank)

\* A group with a clean safety line and teams on either side of it.
C7_Witness ==
    /\ GapsDone
    /\ \E i, j \in 1..Len(gaps_df) :
          /\ SameSeasonDate(gaps_df[i], gaps_df[j])
          /\ CleanSafetyLine(gaps_df[i].Season, gaps_df[i].Date)
          /\ gaps_df[i].gap_to_17th > 0
          /\ gaps_df[j].gap_to_17th < 0

FinalDate(s) ==
    MaxOf({standings_df[i].Date :
              i \in {j \in 1..Len(standings_df) : standings_df[j].Season = s}})

\* The position of team t on the last date of season s.
FinalPosition(s, t) ==
    LET i == CHOOSE j \in StandingsAt(s, FinalDate(s), t) : TRUE
    IN standings_df[i].position

Labelled == pc = "marked"

\* C8: on every GapRecord with gap > 0, eventually_survived is set, is the
\* same on all such records of the (season, team), and tells whether the
\* team's position on the season's final date is <= 17, 17 included.
C8_DangerRowsLabelledByFinalPosition ==
    Labelled =>
        \A i \in 1..Len(gaps_df) :
            LET g == gaps_df[i]
            IN g.gap_to_17th > 0 =>
                  /\ g.eventually_survived \in {"True", "False"}
                  /\ (g.eventually_survived = "True")
                        <=> (FinalPosition(g.Season, g.team) <= SafetyRank)
                  /\ \A j \in 1..Len(gaps_df) :
                        /\ gaps_df[j].Season = g.Season
                        /\ gaps_df[j].team = g.team
                        /\ gaps_df[j].gap_to_17th > 0
                        => gaps_df[j].eventually_survived = g.eventually_survived

\* A team in danger on some date finishes exactly at position 17 and is
\* labelled survived, while another team in danger finishes lower and is not.
C8_Witness ==
    /\ Labelled
    /\ \E i, j \in 1..Len(gaps_df) :
          /\ gaps_df[i].gap_to_17th > 0
          /\ FinalPosition(gaps_df[i].Season, gaps_df[i].team) = SafetyRank
          /\ gaps_df[i].eventually_survived = "True"
          /\ gaps_df[j].gap_to_17th > 0
          /\ FinalPosition(gaps_df[j].Season, gaps_df[j].team) > SafetyRank
          /\ gaps_df[j].eventually_survived = "False"

\* C9: every GapRecord with gap <= 0 has eventually_survived null, whatever
\* the final position of the team.
C9_NoDangerNoLabel ==
    Labelled =>
        \A i \in 1..Len(gaps_df) :
            gaps_df[i].gap_to_17th <= 0 => gaps_df[i].eventually_survived = "None"

\* A team never in danger that finishes below the safety rank: null on all
\* its records.
C9_Witness ==
    /\ Labelled
    /\ \E i \in 1..Len(gaps_df) :
          LET g == gaps_df[i]
          IN /\ FinalPosition(g.Season, g.team) > SafetyRank
             /\ \A j \in 1..Len(gaps_df) :
                   gaps_df[j].Season = g.Season /\ gaps_df[j].team = g.team
                   => /\ gaps_df[j].gap_to_17th <= 0
                      /\ gaps_df[j].eventually_survived = "None"

OnFinalDate(g) == g.Date = FinalDate(g.Season)

Expanded == pc = "long"

Accumulated == pc = "cumulative"

\* A match from the home team's and from the away team's perspective.
HomeView(m) ==
    [Season |-> m.Season, Date |-> m.Date, Team |-> m.HomeTeam,
     Opponent |-> m.AwayTeam, GF |-> m.FTHG, GA |-> m.FTAG, Venue |-> "H"]

AwayView(m) ==
    [Season |-> m.Season, Date |-> m.Date, Team |-> m.AwayTeam,
     Opponent |-> m.HomeTeam, GF |-> m.FTAG, GA |-> m.FTHG, Venue |-> "A"]

\* A row of the long or cumulative table without its points and totals.
Perspective(r) ==
    [Season |-> r.Season, Date |-> r.Date, Team |-> r.Team,
     Opponent |-> r.Opponent, GF |-> r.GF, GA |-> r.GA, Venue |-> r.Venue]

\* C11: matches_to_long_format outputs exactly 2*N rows for N matches: for
\* each match one row from the home team's perspective and one mirrored row
\* from the away team's, season and date unchanged (as many rows of each
\* perspective as there are matches giving it).
C11_TwoRowsPerMatch ==
    Expanded =>
        /\ Len(long_df) = 2 * Len(matches_df)
        /\ \A i \in 1..Len(matches_df) : \A v \in {HomeView(matches_df[i]), AwayView(matches_df[i])} :
              Cardinality({k \in 1..Len(long_df) : Perspective(long_df[k]) = v})
                  = Cardinality({j \in 1..Len(matches_df) :
                        v \in {HomeView(matches_df[j]), AwayView(matches_df[j])}})

\* Two matches with different scores, one of them not a draw, expanded.
C11_Witness ==
    /\ Expanded
    /\ \E i, j \in 1..Len(matches_df) :
          /\ matches_df[i].FTHG # matches_df[i].FTAG
          /\ HomeView(matches_df[i]) # HomeView(matches_df[j])

\* The points of the two sides for an outcome code.
OutcomePoints(ftr) ==
    IF ftr = "H" THEN <<3, 0>> ELSE IF ftr = "D" THEN <<1, 1>> ELSE <<0, 3>>

WithPts(view, pts) ==
    [Season |-> view.Season, Date |-> view.Date, Team |-> view.Team,
     Opponent |-> view.Opponent, GF |-> view.GF, GA |-> view.GA,
     Pts |-> pts, Venue |-> view.Venue]

HomeResult(m) == WithPts(HomeView(m), OutcomePoints(m.FTR)[1])

AwayResult(m) == WithPts(AwayView(m), OutcomePoints(m.FTR)[2])

\* C12: the two TeamResult rows of every match carry points (home, away) =
\* (3, 0) for outcome H, (1, 1) for D and (0, 3) for A; the pair sums to 3
\* for a non-draw and both are 1 for a draw.
C12_PointsByOutcome ==
    Expanded =>
        /\ \A i \in 1..Len(matches_df) :
              \A x \in {HomeResult(matches_df[i]), AwayResult(matches_df[i])} :
                 Cardinality({k \in 1..Len(long_df) : long_df[k] = x})
                     = Cardinality({j \in 1..Len(matches_df) :
                           x \in {HomeResult(matches_df[j]), AwayResult(matches_df[j])}})
        /\ \A i \in 1..Len(matches_df) : \E a \in 1..Len(long_df) :
              /\ Perspective(long_df[a]) = HomeView(matches_df[i])
              /\ \E b \in 1..Len(long_df) :
                    /\ Perspective(long_df[b]) = AwayView(matches_df[i])
                    /\ IF matches_df[i].FTR = "D"
                       THEN long_df[a].Pts = 1 /\ long_df[b].Pts = 1
                       ELSE long_df[a].Pts + long_df[b].Pts = 3

\* A home win, a draw and an away win expanded in one run.
C12_Witness ==
    /\ Expanded
    /\ \E i, j, k \in 1..Len(matches_df) :
          /\ matches_df[i].FTR = "H"
          /\ matches_df[j].FTR = "D"
          /\ matches_df[k].FTR = "A"

\* The rows of cumulative_df of the team and season of row i.
TeamRecords(i) ==
    {j \in 1..Len(cumulative_df) : SameSeasonTeam(cumulative_df[j], cumulative_df[i])}

\* C13: calculate_cumulative_stats outputs one CumulativeRecord per input
\* TeamResult; the records of a team in a season are numbered Played = 1..n
\* in date order, and the record with Played = k has as CumPts, CumGF, CumGA
\* the sums of Pts, GF, GA over the team's first k matches, that one included.
C13_RunningTotals ==
    Accumulated =>
        /\ Len(cumulative_df) = Len(long_df)
        /\ \A i \in 1..Len(long_df) :
              Cardinality({k \in 1..Len(cumulative_df) :
                    WithPts(Perspective(cumulative_df[k]), cumulative_df[k].Pts) = long_df[i]})
                 = Cardinality({k \in 1..Len(long_df) : long_df[k] = long_df[i]})
        /\ \A i \in 1..Len(cumulative_df) :
              LET r == cumulative_df[i]
                  team == TeamRecords(i)
                  first == {j \in team : cumulative_df[j].Played <= r.Played}
              IN /\ {cumulative_df[j].Played : j \in team} = 1..Cardinality(team)
                 /\ Cardinality(first) = r.Played
                 /\ \A j \in team : cumulative_df[j].Date < r.Date
                                       => cumulative_df[j].Played < r.Played
                 /\ r.CumPts = SumField(cumulative_df, first, "Pts")
                 /\ r.CumGF = SumField(cumulative_df, first, "GF")
                 /\ r.CumGA = SumField(cumulative_df, first, "GA")

\* A team with matches on two dates and a team with two matches on one date.
C13_Witness ==
    /\ Accumulated
    /\ \E i, j \in 1..Len(cumulative_df) :
          /\ j \in TeamRecords(i)
          /\ cumulative_df[i].Date < cumulative_df[j].Date
          /\ cumulative_df[j].Played = 2
          /\ cumulative_df[j].CumPts > cumulative_df[i].CumPts
    /\ \E i, j \in 1..Len(cumulative_df) :
          /\ i # j
          /\ j \in TeamRecords(i)
          /\ cumulative_df[i].Date = cumulative_df[j].Date

\* C14: for every (season, team), points and games played never decrease as
\* the date increases, across its CumulativeRecords and across its
\* StandingsRows, forward-filled rows included.
C14_NeverDecrease ==
    /\ Accumulated =>
          \A i, j \in 1..Len(cumulative_df) :
              LET a == cumulative_df[i]
                  b == cumulative_df[j]
              IN SameSeasonTeam(a, b) /\ a.Date < b.Date
                    => a.CumPts <= b.CumPts /\ a.Played <= b.Played
    /\ StandingsDone =>
          \A i, j \in 1..Len(standings_df) :
              LET a == standings_df[i]
                  b == standings_df[j]
              IN a.Season = b.Season /\ a.team = b.team /\ a.Date < b.Date
                    => a.points <= b.points /\ a.played <= b.played

\* One team gains points from one date to the next, another did not play on
\* the later date and keeps its row.
C14_Witness ==
    /\ StandingsDone
    /\ \E i, j, k, l \in 1..Len(standings_df) :
          LET a == standings_df[i]
              b == standings_df[j]
              c == standings_df[k]
              e == standings_df[l]
          IN /\ a.Season = b.Season /\ a.team = b.team /\ a.Date < b.Date
             /\ a.points < b.points /\ a.played < b.played
             /\ c.Season = e.Season /\ c.team = e.team /\ c.Date < e.Date
             /\ MatchesUpTo(c.Season, c.team, e.Date) = MatchesUpTo(c.Season, c.team, c.Date)
             /\ c.points = e.points

\* C15: in every CumulativeRecord CumGD = CumGF - CumGA, and in every
\* StandingsRow goal_difference = goals_for - goals_against.
C15_GoalDifferenceExact ==
    /\ Accumulated =>
          \A i \in 1..Len(cumulative_df) :
              cumulative_df[i].CumGD = cumulative_df[i].CumGF - cumulative_df[i].CumGA
    /\ StandingsDone =>
          \A i \in 1..Len(standings_df) :
              standings_df[i].goal_difference =
                  standings_df[i].goals_for - standings_df[i].goals_against

\* C16: games_in_hand of every GapRecord is the most games played by any
\* team of its (season, date) group minus its own (so >= 0, and 0 for some
\* team of the group), and games_in_hand_adjusted is gap_to_17th minus 3
\* times games_in_hand (so never above gap_to_17th).
C16_GamesInHand ==
    GapsDone =>
        \A i \in 1..Len(gaps_df) :
            LET g == gaps_df[i]
                grp == Group(standings_df, g.Season, g.Date)
                most == MaxOf({standings_df[j].played : j \in grp})
            IN /\ g.games_in_hand = most - g.played
               /\ g.games_in_hand >= 0
               /\ \E j \in Group(gaps_df, g.Season, g.Date) : gaps_df[j].games_in_hand = 0
               /\ g.games_in_hand_adjusted = g.gap_to_17th - 3 * g.games_in_hand
               /\ g.games_in_hand_adjusted <= g.gap_to_17th

\* A team in danger with a game in hand, its adjusted gap no longer positive.
C16_Witness ==
    /\ GapsDone
    /\ \E i \in 1..Len(gaps_df) :
          /\ gaps_df[i].games_in_hand > 0
          /\ gaps_df[i].gap_to_17th > 0
          /\ gaps_df[i].games_in_hand_adjusted <= 0

\* C17: no GapRecord for a (season, date) group of fewer than 17
\* StandingsRows; for a group of at least 17, exactly one GapRecord per
\* StandingsRow, with its team, position and points, whatever happens to the
\* groups of other dates.
C17_SkipShortGroups ==
    GapsDone =>
        \A s \in Seasons : \A d \in Dates :
            LET grp == Group(standings_df, s, d)
                rec == Group(gaps_df, s, d)
            IN IF Cardinality(grp) < SafetyRank
               THEN rec = {}
               ELSE /\ Cardinality(rec) = Cardinality(grp)
                    /\ \A i \in grp :
                          Cardinality({j \in rec :
                              /\ gaps_df[j].team = standings_df[i].team
                              /\ gaps_df[j].position = standings_df[i].position
                              /\ gaps_df[j].points = standings_df[i].points}) = 1

\* A run with a skipped group and a group that has its GapRecords.
C17_Witness ==
    /\ GapsDone
    /\ \E s, t \in Seasons : \E d, e \in Dates :
          /\ Group(standings_df, s, d) # {}
          /\ Cardinality(Group(standings_df, s, d)) < SafetyRank
          /\ Group(gaps_df, s, d) = {}
          /\ Cardinality(Group(standings_df, t, e)) >= SafetyRank
          /\ Group(gaps_df, t, e) # {}

Malformed(m) ==
    \/ m.FTHG < 0
    \/ m.FTAG < 0
    \/ m.FTR # Result(m.FTHG, m.FTAG)

\* C20: a Match with negative goals, or with an outcome code that disagrees
\* with its score, yields no TeamResult row, while the other matches of the
\* run yield theirs.
C20_MalformedDropped ==
    Expanded =>
        /\ Len(long_df) =
              2 * Cardinality({i \in 1..Len(matches_df) : ~Malformed(matches_df[i])})
        /\ \A i \in 1..Len(matches_df) :
              Malformed(matches_df[i]) =>
                  \A k \in 1..Len(long_df) :
                      long_df[k] \notin {HomeResult(matches_df[i]), AwayResult(matches_df[i])}

\* The rows of season s of a table.
SeasonOnly(df, s) == SelectSeq(df, LAMBDA r : r.Season = s)

\* The tables the pipeline computes from the matches of season s alone
\* (none from an input without a match).
AloneCumulative(s) ==
    Rows(calculate_cumulative_stats(matches_to_long_format(SeasonOnly(matches_df, s))))

AloneStandings(s) ==
    LET cumulative == AloneCumulative(s)
    IN IF cumulative = <<>> THEN <<>>
       ELSE Rows(create_standings_snapshots(cumulative))

AloneGaps(s) ==
    LET standings == AloneStandings(s)
    IN Rows(mark_survivors(Rows(calculate_relegation_gaps(standings)), standings))

MultiSeason ==
    \E i, j \in 1..Len(matches_df) : matches_df[i].Season # matches_df[j].Season

SnapshotData(r) ==
    [season |-> r.season, date |-> r.date, team |-> r.team,
     position |-> r.position, played |-> r.played, points |-> r.points,
     goals_for |-> r.goals_for, goals_against |-> r.goals_against,
     goal_difference |-> r.goal_difference]

GapData(r) ==
    [season |-> r.season, date |-> r.date, team |-> r.team,
     position |-> r.position, points |-> r.points,
     gap_to_17th |-> r.gap_to_17th,
     games_in_hand_adjusted |-> r.games_in_hand_adjusted,
     eventually_survived |-> r.eventually_survived]

\* The second of two runs on the same input has ended.
SecondRunEnded ==
    /\ previous.ran
    /\ previous.matches_df = matches_df
    /\ pc \in {"done", "integrity_error"}

\* C18: after run_full_pipeline has run twice in succession on unchanged
\* input, standings_snapshots and relegation_gaps hold the same StandingsRows
\* and GapRecords as after the first run, none of them twice and no stored
\* row of the first run still there.
C18_RerunSameRows ==
    SecondRunEnded =>
        /\ {SnapshotData(r) : r \in standings_snapshots}
              = {SnapshotData(r) : r \in previous.standings_snapshots}
        /\ {GapData(r) : r \in relegation_gaps}
              = {GapData(r) : r \in previous.relegation_gaps}
        /\ Cardinality({TeamDateKey(r) : r \in standings_snapshots})
              = Cardinality(standings_snapshots)
        /\ Cardinality({TeamDateKey(r) : r \in relegation_gaps})
              = Cardinality(relegation_gaps)
        /\ standings_snapshots \cap previous.standings_snapshots = {}
        /\ relegation_gaps \cap previous.relegation_gaps = {}

\* Two completed runs, the tables filled by both, a survivor among the rows.
C18_Witness ==
    /\ previous.ran
    /\ pc = "done"
    /\ previous.standings_snapshots # {}
    /\ \E r \in previous.relegation_gaps : r.eventually_survived = "1"
    /\ \E r \in relegation_gaps : r.eventually_survived = "1"

----------------------------------------------------------------------------
(* The scenario of the four-team mini-season *)

\* The Gap Engine has run on the mini-season.
ScenarioRun == matches_df = MiniSeason /\ pc = "gaps"

\* The points of team t in the standings of day 2.
DayTwoPoints(t) == {standings_df[i].points : i \in StandingsAt(1, 2, t)}

DayTwoPosition(t) == {standings_df[i].position : i \in StandingsAt(1, 2, t)}

----------------------------------------------------------------------------
(* The sign of the gap as the methodology page documents it *)

\* C22: gap_to_17th of every GapRecord is its own points minus the points of
\* the row at position 17 of its (season, date) group; a negative gap is a
\* team below the 17th, a positive gap a team above it, zero a team level
\* with it.
C22_GapIsOwnMinusSafety ==
    pc = "gaps" =>
        \A i \in 1..Len(gaps_df) :
            LET g == gaps_df[i]
            IN \A j \in SafetyLine(g.Season, g.Date) :
                  LET safety == standings_df[j].points
                  IN /\ g.gap_to_17th = g.points - safety
                     /\ (g.gap_to_17th < 0) <=> (g.points < safety)
                     /\ (g.gap_to_17th > 0) <=> (g.points > safety)

----------------------------------------------------------------------------
(* A match table without rows *)

\* C23: on an input with no matches no stage raises, and the stages yield no
\* StandingsRow and no GapRecord.
C23_EmptyIsNoOp ==
    matches_df = NoData =>
        /\ pc # "error"
        /\ standings_df = <<>>
        /\ gaps_df = <<>>

----------------------------------------------------------------------------
(* Points conservation *)

\* The matches of season s dated on or before d, and the drawn ones of them.
SeasonMatchesUpTo(s, d) ==
    {i \in 1..Len(matches_df) : matches_df[i].Season = s /\ matches_df[i].Date <= d}

DrawsUpTo(s, d) == {i \in SeasonMatchesUpTo(s, d) : matches_df[i].FTR = "D"}

\* C24: for every season s and match date d the points of the StandingsRows
\* of (s, d) add up to 3 for every decisive and 2 for every drawn match of s
\* played on or before d: at most 3 per match, short of it by the number of
\* draws.
C24_PointsConserved ==
    pc = "standings" =>
        \A s \in Seasons : \A d \in MatchDates(s) :
            LET total == SumField(standings_df, Group(standings_df, s, d), "points")
                matches == Cardinality(SeasonMatchesUpTo(s, d))
                draws == Cardinality(DrawsUpTo(s, d))
            IN /\ total = 3 * (matches - draws) + 2 * draws
               /\ total <= 3 * matches
               /\ 3 * matches - total = draws

\* A date whose total holds a draw and a decisive match of an earlier date,
\* carried forward for a team that did not play on it.
C24_Witness ==
    /\ pc = "standings"
    /\ \E s \in Seasons : \E d \in MatchDates(s) :
          /\ DrawsUpTo(s, d - 1) # {}
          /\ SeasonMatchesUpTo(s, d - 1) # DrawsUpTo(s, d - 1)
          /\ \E t \in AllTeams :
                /\ MatchesUpTo(s, t, d) # {}
                /\ MatchesUpTo(s, t, d) = MatchesUpTo(s, t, d - 1)

----------------------------------------------------------------------------
(* Every stage works on a copy *)

\* The steps of a run at which the table of each stage exists.
HasLong ==
    pc \in {"long", "cumulative", "standings", "gaps", "marked", "cleared",
            "matches_inserted", "standings_inserted"}

HasCumulative == HasLong /\ pc # "long"

HasStandings == HasCumulative /\ pc # "cumulative"

HasLabels == pc \in {"marked", "cleared", "matches_inserted", "standings_inserted"}

\* C25: no step of a run changes a table an earlier stage has returned: the
\* match table, the long table, the cumulative table and the standings keep
\* their rows and values through every later stage and the storage steps,
\* and so do the labelled gaps through the storage steps.
C25_InputsKept ==
    [][/\ (pc = "loaded" \/ HasLong) => matches_df' = matches_df
       /\ HasLong => long_df' = long_df
       /\ HasCumulative => cumulative_df' = cumulative_df
       /\ HasStandings => standings_df' = standings_df
       /\ HasLabels => gaps_df' = gaps_df]_vars

\* A run has stored its tables: the standings passed to the Gap Engine, to
\* the labeller and to storage, and the gaps labelled from them.
C25_Witness ==
    /\ pc = "done"
    /\ standings_df # <<>>
    /\ Cardinality(standings_snapshots) = Len(standings_df)
    /\ Cardinality(relegation_gaps) = Len(gaps_df)
    /\ \E i \in 1..Len(gaps_df) : gaps_df[i].eventually_survived # "None"

----------------------------------------------------------------------------
(* Seasons that never reach the safety rank *)

\* The standings are there and no row of them is at the safety rank.
NoSafetyRow ==
    /\ standings_df # <<>>
    /\ \A i \in 1..Len(standings_df) : standings_df[i].position # SafetyRank

\* C26: when no (season, date) group has a row at position 17 the run does
\* not abort: the Gap Engine and the labeller yield no GapRecord, and the run
\* ends with the matches and the standings stored and no gap row.
C26_SkipCompletes ==
    NoSafetyRow =>
        /\ gaps_df = <<>>
        /\ pc # "error"
        /\ pc = "done" =>
              /\ Cardinality(raw_matches) = Len(matches_df)
              /\ Cardinality(standings_snapshots) = Len(standings_df)
              /\ relegation_gaps = {}

----------------------------------------------------------------------------
(* A run that finds no data *)

\* C27: a run whose load step fails ends with raw_matches,
\* standings_snapshots and relegation_gaps holding exactly the rows they
\* held before the run: none deleted, none inserted.
C27_LoadFailureKeepsTables ==
    pc = "load_failed" =>
        /\ raw_matches = previous.raw_matches
        /\ standings_snapshots = previous.standings_snapshots
        /\ relegation_gaps = previous.relegation_gaps

\* The load step fails over tables an earlier run has filled.
C27_Witness ==
    /\ pc = "load_failed"
    /\ previous.ran
    /\ raw_matches # {}
    /\ standings_snapshots # {}
    /\ relegation_gaps # {}

----------------------------------------------------------------------------
(* The bulk replace *)

\* A run has ended: completed, stopped at the load step, or aborted by an
\* exception of a stage or of an insert.
RunEnded == pc \in {"done", "load_failed", "error", "integrity_error"}

\* The tables hold what they held before the run.
OldContents ==
    /\ raw_matches = previous.raw_matches
    /\ standings_snapshots = previous.standings_snapshots
    /\ relegation_gaps = previous.relegation_gaps

\* The tables hold the whole output of this run, whatever the row ids.
NewContents ==
    /\ {[r EXCEPT !.match_id = 0] : r \in raw_matches}
          = {RawMatchRow(matches_df[i], 0) : i \in 1..Len(matches_df)}
    /\ Cardinality(raw_matches) = Len(matches_df)
    /\ {[r EXCEPT !.snapshot_id = 0] : r \in standings_snapshots}
          = {SnapshotRow(standings_df[i], 0) : i \in 1..Len(standings_df)}
    /\ {[r EXCEPT !.gap_id = 0] : r \in relegation_gaps}
          = {GapDbRow(gaps_df[i], 0) : i \in 1..Len(gaps_df)}

\* C28: after any run, completed or failed at any step, the three tables
\* hold either their complete contents from before the run or the complete
\* output of the run, never an emptied or partly filled state.
C28_AllOrNothing == RunEnded => OldContents \/ NewContents

----------------------------------------------------------------------------
(* The order of the rows of the input *)

\* The match table with its rows in another order: every order of a short
\* table, the reverse order of a long one.
Reorderings(df) ==
    IF Len(df) <= 4
    THEN {Rows([i \in 1..Len(df) |-> df[p[i]]]) : p \in Permutations(1..Len(df))}
    ELSE {Rows([i \in 1..Len(df) |-> df[Len(df) + 1 - i]])}

\* C29: the StandingsRows and the GapRecords are the same for every order of
\* the rows of the input, matches on one date and of one team on one date
\* included.
C29_OrderIndependent ==
    pc = "gaps" =>
        \A df \in Reorderings(matches_df) :
            LET standings == create_standings_snapshots(
                    calculate_cumulative_stats(matches_to_long_format(df)))
            IN /\ ToSet(standings) = ToSet(standings_df)
               /\ ToSet(calculate_relegation_gaps(standings)) = ToSet(gaps_df)

----------------------------------------------------------------------------
(* The labels on the final date *)

\* C30: on the final date of every season no GapRecord has
\* eventually_survived = true: a record with gap > 0 has false, every other
\* record null.
C30_FinalDateNeverTrue ==
    Labelled =>
        \A i \in 1..Len(gaps_df) :
            LET g == gaps_df[i]
            IN OnFinalDate(g) =>
                  /\ g.eventually_survived # "True"
                  /\ g.gap_to_17th > 0 => g.eventually_survived = "False"
                  /\ g.gap_to_17th <= 0 => g.eventually_survived = "None"

\* Final-date records below the line, level with it at position 18 and above
\* it, and a record of an earlier date labelled true.
C30_Witness ==
    /\ Labelled
    /\ \E i \in 1..Len(gaps_df) :
          OnFinalDate(gaps_df[i]) /\ gaps_df[i].gap_to_17th > 0
    /\ \E i \in 1..Len(gaps_df) :
          /\ OnFinalDate(gaps_df[i])
          /\ gaps_df[i].gap_to_17th = 0
          /\ gaps_df[i].position = SafetyRank + 1
    /\ \E i \in 1..Len(gaps_df) :
          ~OnFinalDate(gaps_df[i]) /\ gaps_df[i].eventually_survived = "True"

====
